---------------------------- MODULE Spec2Model ----------------------------
(***************************************************************************)
(* NOrec software transactional memory of norec_cgrundey_umap.cpp and its  *)
(* bank-account driver.                                                    *)
(*                                                                         *)
(* Every action holds at most one access to the shared memory (one load or *)
(* store of global_clock or of one accts[].value); the thread-local work   *)
(* around it is folded into the same step.  Loads and stores are taken in  *)
(* program order, as the unoptimised x86 build named in the file header    *)
(* executes them.  The clock stays far below 2^31, so `unsigned int rv`    *)
(* and `int temp` never wrap.                                              *)
(***************************************************************************)
EXTENDS Integers, Sequences, FiniteSets, TLC

\* -------------------------------------------------------------- bounds
\* number of accounts (NUM_ACCTS scaled down)
NumCells == 3
\* transactions each thread commits (NUM_TXN / numThreads scaled down)
Workload == 1
\* most calls to tx_read and tx_write one attempt of the general client makes
MaxOps == 3
\* values the general client passes to tx_write are 1..MaxVal
MaxVal == 1
\* initial balance in units of TRFR_AMT (INIT_BALANCE scaled down)
BalUnits == 1

\* ----------------------------------------------------------- constants
\* the program's argument (1, 2 or 4): threads created by main, which runs
\* th_run(0) itself as well (line 219)
numThreads == 1
TRFR_AMT == 50
\* passes of th_run's for loop (line 158)
NUM_ITER == 10

INIT_BALANCE == BalUnits * TRFR_AMT
Threads == 0 .. numThreads
Cells == 0 .. (NumCells - 1)
WriteVals == 1 .. MaxVal
NoCell == NumCells

VARIABLES
  accts,          \* accts[a].value
  global_clock,
  rv,             \* thread_local rv
  read_set,       \* thread_local list<Acct>: sequence of [addr, value]
  write_set,      \* thread_local unordered_map<int,int>: function on a set of cells
  pc,             \* where each thread is
  site,           \* which call of the driver the running tx_read returns to
  caller,         \* which function the running tx_validate returns to
  addr,           \* tx_read's / tx_write's parameter addr
  val,            \* tx_read's local val / tx_write's parameter val
  temp,           \* tx_validate's local temp
  iterator,       \* tx_validate's position in read_set
  wb,             \* tx_commit's write-back loop: entries not yet stored
  r1, r2, a1, j,  \* th_run's locals
  i,              \* th_run's transaction counter
  ops,            \* calls made by the general client in this attempt
  \* history, read by the properties only
  startVersions,  \* every value a thread adopted as its start version
  startedAt,      \* the value with which the thread's tx_begin returned
  stored,         \* cells the thread's current attempt has stored into accts
  lastw,          \* value of the latest tx_write to each cell in this attempt
  log             \* write sets of the completed commits, in release order

shared == <<accts, global_clock>>
txvars == <<rv, read_set, write_set>>
locals == <<addr, val, temp, iterator, wb, caller>>
drvvars == <<site, r1, r2, a1, j, ops>>
hist == <<startVersions, startedAt, stored, lastw, log>>
vars == <<accts, global_clock, rv, read_set, write_set, pc, site, caller, addr,
          val, temp, iterator, wb, r1, r2, a1, j, i, ops,
          startVersions, startedAt, stored, lastw, log>>

EmptyMap == [x \in {} |-> 0]

\* everything but the accounts: the clock, the thread-local transaction
\* contexts, every thread before its first tx_begin
InitThreads ==
  /\ global_clock = 0
  /\ rv = [t \in Threads |-> 0]
  /\ read_set = [t \in Threads |-> << >>]
  /\ write_set = [t \in Threads |-> EmptyMap]
  /\ pc = [t \in Threads |-> "start"]
  /\ site = [t \in Threads |-> "none"]
  /\ caller = [t \in Threads |-> "none"]
  /\ addr = [t \in Threads |-> NoCell]
  /\ val = [t \in Threads |-> 0]
  /\ temp = [t \in Threads |-> 0]
  /\ iterator = [t \in Threads |-> 0]
  /\ wb = [t \in Threads |-> {}]
  /\ r1 = [t \in Threads |-> 0]
  /\ r2 = [t \in Threads |-> 0]
  /\ a1 = [t \in Threads |-> 0]
  /\ j = [t \in Threads |-> 0]
  /\ i = [t \in Threads |-> 0]
  /\ ops = [t \in Threads |-> 0]
  /\ startVersions = {}
  /\ startedAt = [t \in Threads |-> 0]
  /\ stored = [t \in Threads |-> {}]
  /\ lastw = [t \in Threads |-> EmptyMap]
  /\ log = << >>

\* main fills the accounts with INIT_BALANCE each
InitAccts(S) == accts = [a \in S |-> [addr |-> a, value |-> INIT_BALANCE]]

Init == InitAccts(Cells) /\ InitThreads

\* ------------------------------------------------------------- helpers
OddNever(n) == FALSE

Odd(n) == n % 2 = 1

\* unordered_map::emplace: inserts only when the key is absent
emplace(m, a, v) == IF a \in DOMAIN m THEN m ELSE m @@ (a :> v)

\* history: the latest value passed to tx_write for a
Latest(m, a, v) == [x \in (DOMAIN m) \cup {a} |-> IF x = a THEN v ELSE m[x]]

\* the throw of tx_abort, caught in th_run: aborted = true
tx_abort(t) ==
  /\ pc' = [pc EXCEPT ![t] = "aborted"]
  /\ addr' = [addr EXCEPT ![t] = NoCell]
  /\ val' = [val EXCEPT ![t] = 0]
  /\ temp' = [temp EXCEPT ![t] = 0]
  /\ iterator' = [iterator EXCEPT ![t] = 0]
  /\ caller' = [caller EXCEPT ![t] = "none"]
  /\ site' = [site EXCEPT ![t] = "none"]
  /\ r1' = [r1 EXCEPT ![t] = 0]
  /\ r2' = [r2 EXCEPT ![t] = 0]
  /\ a1' = [a1 EXCEPT ![t] = 0]
  /\ j' = [j EXCEPT ![t] = 0]

\* ------------------------------------------------------------ tx_begin
\* one pass of tx_begin's do-while, the clears before it included
tx_begin(t) ==
  /\ read_set' = [read_set EXCEPT ![t] = << >>]
  /\ write_set' = [write_set EXCEPT ![t] = EmptyMap]
  /\ rv' = [rv EXCEPT ![t] = global_clock]
  /\ IF Odd(global_clock)
       THEN /\ pc' = [pc EXCEPT ![t] = "begin"]
            /\ UNCHANGED <<startVersions, startedAt>>
       ELSE /\ pc' = [pc EXCEPT ![t] = "active"]
            /\ startVersions' = startVersions \cup {global_clock}
            /\ startedAt' = [startedAt EXCEPT ![t] = global_clock]
  /\ stored' = [stored EXCEPT ![t] = {}]
  /\ lastw' = [lastw EXCEPT ![t] = EmptyMap]
  /\ ops' = [ops EXCEPT ![t] = 0]
  /\ r1' = [r1 EXCEPT ![t] = 0]
  /\ r2' = [r2 EXCEPT ![t] = 0]
  /\ j' = [j EXCEPT ![t] = 0]
  /\ UNCHANGED <<shared, locals, site, a1, i, log>>

\* th_run's loops: the first attempt, the next transaction, the retry
CallBegin(t) ==
  /\ \/ pc[t] = "start"
     \/ pc[t] = "committed" /\ i[t] < Workload
     \/ pc[t] = "aborted"
  /\ tx_begin(t)

BeginSpin(t) ==
  /\ pc[t] = "begin"
  /\ tx_begin(t)


\* ------------------------------------------------------------- tx_read
\* entry of tx_read(a), called from site s: the scan of write_set (lines
\* 102-105) and, when a is not in it, the first load of the cell (line 106)
tx_read(t, a, s) ==
  /\ site' = [site EXCEPT ![t] = s]
  /\ addr' = [addr EXCEPT ![t] = a]
  /\ IF a \in DOMAIN write_set[t]
       THEN /\ val' = [val EXCEPT ![t] = write_set[t][a]]
            /\ pc' = [pc EXCEPT ![t] = "rd_ret"]
       ELSE /\ val' = [val EXCEPT ![t] = accts[a].value]
            /\ pc' = [pc EXCEPT ![t] = "rd_cmp"]
  /\ UNCHANGED <<shared, txvars, temp, iterator, wb, caller, i, hist>>

\* while (rv != global_clock), and lines 111-113 when the loop ends
ReadCompare(t) ==
  /\ pc[t] = "rd_cmp"
  /\ IF rv[t] # global_clock
       THEN /\ pc' = [pc EXCEPT ![t] = "val_clock"]
            /\ caller' = [caller EXCEPT ![t] = "read"]
            /\ UNCHANGED read_set
       ELSE /\ pc' = [pc EXCEPT ![t] = "rd_ret"]
            /\ read_set' = [read_set EXCEPT
                              ![t] = Append(@, [addr |-> addr[t], value |-> val[t]])]
            /\ UNCHANGED caller
  /\ UNCHANGED <<shared, rv, write_set, addr, val, temp, iterator, wb, drvvars, i, hist>>

\* val = accts[addr].value after tx_validate returned (line 109)
ReadReload(t) ==
  /\ pc[t] = "rd_reload"
  /\ val' = [val EXCEPT ![t] = accts[addr[t]].value]
  /\ pc' = [pc EXCEPT ![t] = "rd_cmp"]
  /\ UNCHANGED <<shared, txvars, addr, temp, iterator, wb, caller, drvvars, i, hist>>

\* --------------------------------------------------------- tx_validate
\* temp = global_clock; an odd temp restarts the while; so does an empty
\* read_set, whose for loop has no pass that could reach the return
ValidateClock(t) ==
  /\ pc[t] = "val_clock"
  /\ temp' = [temp EXCEPT ![t] = global_clock]
  /\ IF Odd(global_clock) \/ read_set[t] = << >>
       THEN UNCHANGED <<pc, iterator>>
       ELSE /\ pc' = [pc EXCEPT ![t] = "val_cmp"]
            /\ iterator' = [iterator EXCEPT ![t] = 1]
  /\ UNCHANGED <<shared, txvars, addr, val, wb, caller, drvvars, i, hist>>

EntryAlwaysDiffers(e) == TRUE

\* the comparison of one entry with its cell (line 78)
EntryDiffers(e) == e.value # accts[e.addr].value

ValidateCompare(t) ==
  /\ pc[t] = "val_cmp"
  /\ IF EntryDiffers(read_set[t][iterator[t]])
       THEN /\ tx_abort(t)
            /\ UNCHANGED <<ops>>
       ELSE /\ pc' = [pc EXCEPT ![t] = "val_recheck"]
            /\ UNCHANGED <<locals, drvvars>>
  /\ UNCHANGED <<shared, txvars, wb, i, hist>>

\* if (temp == global_clock) return temp; else ++iterator (lines 77, 80-81);
\* both callers assign the result to rv (lines 108, 123)
ValidateRecheck(t) ==
  /\ pc[t] = "val_recheck"
  /\ IF temp[t] = global_clock
       THEN /\ rv' = [rv EXCEPT ![t] = temp[t]]
            /\ startVersions' = startVersions \cup {temp[t]}
            /\ pc' = [pc EXCEPT ![t] = IF caller[t] = "read" THEN "rd_reload" ELSE "cm_cas"]
            /\ temp' = [temp EXCEPT ![t] = 0]
            /\ iterator' = [iterator EXCEPT ![t] = 0]
            /\ caller' = [caller EXCEPT ![t] = "none"]
       ELSE /\ IF iterator[t] < Len(read_set[t])
                 THEN /\ iterator' = [iterator EXCEPT ![t] = @ + 1]
                      /\ pc' = [pc EXCEPT ![t] = "val_cmp"]
                 ELSE /\ iterator' = [iterator EXCEPT ![t] = 0]
                      /\ pc' = [pc EXCEPT ![t] = "val_clock"]
            /\ UNCHANGED <<rv, startVersions, temp, caller>>
  /\ UNCHANGED <<shared, read_set, write_set, addr, val, wb, drvvars, i,
                 startedAt, stored, lastw, log>>

\* ------------------------------------------------------------ tx_write
\* mutant: a tx_write that stores straight into the cell
tx_write_through(t) ==
  /\ write_set' = [write_set EXCEPT ![t] = emplace(@, addr[t], val[t])]
  /\ lastw' = [lastw EXCEPT ![t] = Latest(@, addr[t], val[t])]
  /\ accts' = [accts EXCEPT ![addr[t]].value = val[t]]
  /\ UNCHANGED <<global_clock, rv, read_set>>

\* the body of tx_write(addr, val).  The function is declared bool and
\* returns no value; its callers discard the result.
tx_write(t) ==
  /\ write_set' = [write_set EXCEPT ![t] = emplace(@, addr[t], val[t])]
  /\ lastw' = [lastw EXCEPT ![t] = Latest(@, addr[t], val[t])]
  /\ UNCHANGED <<shared, rv, read_set>>

TxWrite(t) ==
  /\ pc[t] = "wr"
  /\ tx_write(t)
  /\ pc' = [pc EXCEPT ![t] = "active"]
  /\ addr' = [addr EXCEPT ![t] = NoCell]
  /\ val' = [val EXCEPT ![t] = 0]
  /\ UNCHANGED <<temp, iterator, wb, caller, drvvars, i,
                 startVersions, startedAt, stored, log>>

\* ----------------------------------------------------------- tx_commit
\* mutant: tx_commit without its read-only return
WriteSetNeverEmpty(m) == FALSE

WriteSetEmpty(m) == DOMAIN m = {}

\* entry of tx_commit: if (write_set.empty()) return
tx_commit(t, m) ==
  /\ IF WriteSetEmpty(m)
       THEN /\ pc' = [pc EXCEPT ![t] = "committed"]
            /\ i' = [i EXCEPT ![t] = @ + 1]
       ELSE /\ pc' = [pc EXCEPT ![t] = "cm_cas"]
            /\ UNCHANGED i

\* mutant: a plain store in place of the compare-and-swap
CasAlways(t) == TRUE

\* __sync_bool_compare_and_swap(&global_clock, rv, rv + 1)
CasSucceeds(t) == global_clock = rv[t]

CommitCas(t) ==
  /\ pc[t] = "cm_cas"
  /\ IF CasSucceeds(t)
       THEN /\ global_clock' = rv[t] + 1
            /\ wb' = [wb EXCEPT ![t] = DOMAIN write_set[t]]
            /\ pc' = [pc EXCEPT ![t] = "cm_wb"]
            /\ UNCHANGED caller
       ELSE /\ pc' = [pc EXCEPT ![t] = "val_clock"]
            /\ caller' = [caller EXCEPT ![t] = "commit"]
            /\ UNCHANGED <<global_clock, wb>>
  /\ UNCHANGED <<accts, txvars, addr, val, temp, iterator, drvvars, i, hist>>

\* mutant: the write-back loop stops after its first pass
WriteBackDoneEarly(rest) == TRUE

\* the write-back loop has stored every entry
WriteBackDone(rest) == rest = {}

\* one pass of the write-back loop; unordered_map's iteration order is
\* unspecified
CommitStore(t) ==
  /\ pc[t] = "cm_wb"
  /\ \E a \in wb[t] :
       /\ accts' = [accts EXCEPT ![a].value = write_set[t][a]]
       /\ wb' = [wb EXCEPT ![t] = @ \ {a}]
       /\ stored' = [stored EXCEPT ![t] = @ \cup {a}]
       /\ pc' = [pc EXCEPT ![t] = IF WriteBackDone(wb[t] \ {a}) THEN "cm_rel" ELSE "cm_wb"]
  /\ UNCHANGED <<global_clock, txvars, addr, val, temp, iterator, caller, drvvars, i,
                 startVersions, startedAt, lastw, log>>

\* mutant: the release store writes rv back
ReleaseStaysOdd(t) == rv[t] + 1

ReleaseNoAdvance(t) == rv[t]

\* the value of the release store (line 128)
ReleaseValue(t) == rv[t] + 2

CommitRelease(t) ==
  /\ pc[t] = "cm_rel"
  /\ global_clock' = ReleaseValue(t)
  /\ log' = Append(log, write_set[t])
  /\ pc' = [pc EXCEPT ![t] = "committed"]
  /\ i' = [i EXCEPT ![t] = @ + 1]
  /\ wb' = [wb EXCEPT ![t] = {}]
  /\ UNCHANGED <<accts, txvars, addr, val, temp, iterator, caller, drvvars,
                 startVersions, startedAt, stored, lastw>>

\* the steps inside the five functions, the same under every driver
StmStep(t) ==
  \/ CallBegin(t)
  \/ BeginSpin(t)
  \/ ReadCompare(t)
  \/ ReadReload(t)
  \/ ValidateClock(t)
  \/ ValidateCompare(t)
  \/ ValidateRecheck(t)
  \/ CommitCas(t)
  \/ CommitStore(t)
  \/ CommitRelease(t)

\* ------------------------------------------------- the general client
\* th_run's loops around a body that makes any calls: up to MaxOps calls of
\* tx_read and tx_write with any arguments, then tx_commit
GenRead(t) ==
  /\ pc[t] = "active"
  /\ ops[t] < MaxOps
  /\ \E a \in Cells : tx_read(t, a, "gen")
  /\ ops' = [ops EXCEPT ![t] = @ + 1]
  /\ UNCHANGED <<r1, r2, a1, j>>

GenReturn(t) ==
  /\ pc[t] = "rd_ret"
  /\ site[t] = "gen"
  /\ pc' = [pc EXCEPT ![t] = "active"]
  /\ site' = [site EXCEPT ![t] = "none"]
  /\ addr' = [addr EXCEPT ![t] = NoCell]
  /\ val' = [val EXCEPT ![t] = 0]
  /\ UNCHANGED <<shared, txvars, temp, iterator, wb, caller, r1, r2, a1, j, ops, i, hist>>

GenWrite(t) ==
  /\ pc[t] = "active"
  /\ ops[t] < MaxOps
  /\ \E a \in Cells, v \in WriteVals :
       /\ addr' = [addr EXCEPT ![t] = a]
       /\ val' = [val EXCEPT ![t] = v]
  /\ pc' = [pc EXCEPT ![t] = "wr"]
  /\ ops' = [ops EXCEPT ![t] = @ + 1]
  /\ UNCHANGED <<shared, txvars, temp, iterator, wb, caller, site, r1, r2, a1, j, i, hist>>

GenCommit(t) ==
  /\ pc[t] = "active"
  /\ tx_commit(t, write_set[t])
  /\ UNCHANGED <<shared, txvars, locals, drvvars, hist>>

Next ==
  \E t \in Threads :
    \/ StmStep(t)
    \/ TxWrite(t)
    \/ GenRead(t)
    \/ GenReturn(t)
    \/ GenWrite(t)
    \/ GenCommit(t)

Spec == Init /\ [][Next]_vars

\* --------------------------------------------------- th_run's transfer
\* top of a pass of the for loop: the random pair of lines 159-162, drawn
\* only while r1 = r2, and a1 = tx_read(r1)
XferRead1(t) ==
  /\ pc[t] = "active"
  /\ \E x1 \in Cells, x2 \in Cells :
       /\ x1 # x2
       /\ r1[t] # r2[t] => (x1 = r1[t] /\ x2 = r2[t])
       /\ r1' = [r1 EXCEPT ![t] = x1]
       /\ r2' = [r2 EXCEPT ![t] = x2]
       /\ tx_read(t, x1, "r1")
  /\ UNCHANGED <<a1, j, ops>>

InsufficientNever(v) == FALSE

\* the test of line 165
Insufficient(v) == v < TRFR_AMT

\* if (a1 < TRFR_AMT) break, and tx_commit; else a2 = tx_read(r2)
XferReturn1(t) ==
  /\ pc[t] = "rd_ret"
  /\ site[t] = "r1"
  /\ IF Insufficient(val[t])
       THEN /\ tx_commit(t, write_set[t])
            /\ site' = [site EXCEPT ![t] = "none"]
            /\ addr' = [addr EXCEPT ![t] = NoCell]
            /\ val' = [val EXCEPT ![t] = 0]
            /\ a1' = [a1 EXCEPT ![t] = 0]
            /\ UNCHANGED <<shared, txvars, temp, iterator, wb, caller, hist>>
       ELSE /\ a1' = [a1 EXCEPT ![t] = val[t]]
            /\ tx_read(t, r2[t], "r2")
  /\ UNCHANGED <<r1, r2, j, ops>>

\* a2 is the value returned; tx_write(r1, a1 - TRFR_AMT); tx_write(r2, a2 +
\* TRFR_AMT); ++j; the next pass, or tx_commit after the last one
XferReturn2(t) ==
  /\ pc[t] = "rd_ret"
  /\ site[t] = "r2"
  /\ LET m == emplace(emplace(write_set[t], r1[t], a1[t] - TRFR_AMT),
                      r2[t], val[t] + TRFR_AMT)
     IN /\ write_set' = [write_set EXCEPT ![t] = m]
        /\ IF j[t] + 1 < NUM_ITER
             THEN /\ pc' = [pc EXCEPT ![t] = "active"]
                  /\ UNCHANGED i
             ELSE tx_commit(t, m)
  /\ lastw' = [lastw EXCEPT ![t] = Latest(Latest(@, r1[t], a1[t] - TRFR_AMT),
                                          r2[t], val[t] + TRFR_AMT)]
  /\ j' = [j EXCEPT ![t] = @ + 1]
  /\ site' = [site EXCEPT ![t] = "none"]
  /\ addr' = [addr EXCEPT ![t] = NoCell]
  /\ val' = [val EXCEPT ![t] = 0]
  /\ a1' = [a1 EXCEPT ![t] = 0]
  /\ UNCHANGED <<shared, rv, read_set, temp, iterator, wb, caller, r1, r2, ops,
                 startVersions, startedAt, stored, log>>

th_run(t) ==
  \/ StmStep(t)
  \/ XferRead1(t)
  \/ XferReturn1(t)
  \/ XferReturn2(t)

NextXfer == \E t \in Threads : th_run(t)

SpecXfer == Init /\ [][NextXfer]_vars

\* every thread is an OS thread that spins and never blocks: the scheduler
\* lets each of them take its next step again and again
FairXfer == SpecXfer /\ \A t \in Threads : WF_vars(th_run(t))

\* ------------------------------------------ transfers on disjoint pairs
\* the runs of th_run in which the pairs drawn by different threads never
\* share an account: thread t draws its two accounts from Own(t)
Own(t) == {2 * t, 2 * t + 1}
OwnCells == UNION {Own(t) : t \in Threads}

OwnRead1(t) ==
  /\ pc[t] = "active"
  /\ \E x1 \in Own(t), x2 \in Own(t) :
       /\ x1 # x2
       /\ r1[t] # r2[t] => (x1 = r1[t] /\ x2 = r2[t])
       /\ r1' = [r1 EXCEPT ![t] = x1]
       /\ r2' = [r2 EXCEPT ![t] = x2]
       /\ tx_read(t, x1, "r1")
  /\ UNCHANGED <<a1, j, ops>>

th_run_own(t) ==
  \/ StmStep(t)
  \/ OwnRead1(t)
  \/ XferReturn1(t)
  \/ XferReturn2(t)

NextOwn == \E t \in Threads : th_run_own(t)

InitOwn == InitAccts(OwnCells) /\ InitThreads

SpecOwn == InitOwn /\ [][NextOwn]_vars

\* the general client with a committer that keeps being scheduled: a thread
\* inside its window takes its next write-back or release step
FairCommit ==
  Spec /\ \A t \in Threads : WF_vars(CommitStore(t) \/ CommitRelease(t))

\* =============================================================== claims
InWindow(t) == pc[t] \in {"cm_wb", "cm_rel"}

RECURSIVE SumTo(_)
SumTo(n) == IF n < 0 THEN 0 ELSE accts[n].value + SumTo(n - 1)
Total == SumTo(NumCells - 1)

\* memory after the first k commits
RECURSIVE Snap(_)
Snap(k) ==
  IF k = 0
    THEN [a \in DOMAIN accts |-> INIT_BALANCE]
    ELSE [a \in DOMAIN accts |-> IF a \in DOMAIN log[k] THEN log[k][a] ELSE Snap(k - 1)[a]]

\* C1: under the transfer driver, whenever the clock is even and no commit
\* is in its write-back window, the cells sum to the initial total.
C1_Conservation ==
  (~Odd(global_clock) /\ \A t \in Threads : ~InWindow(t))
    => Total = NumCells * INIT_BALANCE

\* C2: a transaction never holds, in one attempt's read set, the value of A
\* from before a commit that wrote A and B together and the value of B from
\* after it (the pair matches no committed state of the two cells).
C2_NoTornRead ==
  \A t \in Threads : \A k \in 1 .. Len(log) :
    \A p \in 1 .. Len(read_set[t]) : \A q \in 1 .. Len(read_set[t]) :
      LET A == read_set[t][p].addr
          B == read_set[t][q].addr
          old == Snap(k - 1)
          new == Snap(k)
      IN ~ ( /\ A # B
             /\ A \in DOMAIN log[k]
             /\ B \in DOMAIN log[k]
             /\ old[A] # new[A]
             /\ old[B] # new[B]
             /\ read_set[t][p].value = old[A]
             /\ read_set[t][q].value = new[B]
             /\ \A m \in 0 .. Len(log) :
                  ~(Snap(m)[A] = old[A] /\ Snap(m)[B] = new[B]) )

\* C3: an aborted attempt has stored none of its write set; an attempt whose
\* tx_commit returned with a non-empty write set has stored all of it, each
\* cell holding the entry's value when the release store is due; and no
\* step takes a thread from the write-back window to the abort.
C3_AllOrNothing ==
  /\ [](\A t \in Threads :
          /\ pc[t] = "aborted" => stored[t] = {}
          /\ stored[t] # {} => pc[t] \in {"cm_wb", "cm_rel", "committed"}
          /\ (pc[t] = "committed" /\ DOMAIN write_set[t] # {})
               => stored[t] = DOMAIN write_set[t]
          /\ pc[t] = "cm_rel"
               => /\ stored[t] = DOMAIN write_set[t]
                  /\ \A a \in DOMAIN write_set[t] : accts[a].value = write_set[t][a])
  /\ [][\A t \in Threads : InWindow(t) => pc'[t] \in {"cm_wb", "cm_rel", "committed"}]_vars

\* one attempt aborted with writes buffered (none stored) while another
\* committed a write set of two cells
C3_Witness ==
  \E t \in Threads, u \in Threads :
    /\ pc[t] = "aborted" /\ DOMAIN write_set[t] # {}
    /\ pc[u] = "committed" /\ Cardinality(DOMAIN write_set[u]) >= 2

\* C4: at most one thread is between its successful compare-and-swap and
\* its release store.
C4_SingleWriter == Cardinality({t \in Threads : InWindow(t)}) <= 1

\* one thread is in the window while another stands at its own
\* compare-and-swap
C4_Witness ==
  \E t \in Threads, u \in Threads : InWindow(t) /\ pc[u] = "cm_cas"

\* C5: the value a release store writes is greater than every start version
\* adopted, by tx_begin or from tx_validate, before that store.
C5_ReleaseExceedsStarts ==
  [][\A t \in Threads :
       (pc[t] = "cm_rel" /\ pc'[t] # "cm_rel")
         => \A v \in startVersions : global_clock' > v]_vars

\* a second commit has released: its rv, adopted after the first commit,
\* is among the start versions and below the clock
C5_Witness ==
  \E t \in Threads :
    /\ pc[t] = "committed"
    /\ DOMAIN write_set[t] # {}
    /\ rv[t] > 0
    /\ rv[t] \in startVersions
    /\ global_clock = rv[t] + 2

\* C6: a tx_read of a cell the attempt has written returns the value of the
\* attempt's latest tx_write to that cell.
C6_ReadYourWrites ==
  \A t \in Threads :
    (pc[t] = "rd_ret" /\ addr[t] \in DOMAIN lastw[t])
      => val[t] = lastw[t][addr[t]]

\* C7: tx_commit called with an empty write set returns at once and leaves
\* the clock, the cells and rv as they were.
C7_ReadOnlyCommit ==
  [][\A t \in Threads :
       (pc[t] = "active" /\ pc'[t] \in {"committed", "cm_cas"}
          /\ DOMAIN write_set[t] = {})
         => /\ pc'[t] = "committed"
            /\ global_clock' = global_clock
            /\ accts' = accts
            /\ rv' = rv]_vars

\* a read-only attempt has committed although the clock moved past its rv
C7_Witness ==
  \E t \in Threads :
    /\ pc[t] = "committed"
    /\ DOMAIN write_set[t] = {}
    /\ read_set[t] # << >>
    /\ rv[t] < global_clock

\* C8: of two transfer attempts that both began before either committed and
\* that write a common cell, only one commits; the other is aborted.
C8_ConflictOneAborts ==
  \A t \in Threads, u \in Threads :
    ~ ( /\ t # u
        /\ pc[t] = "committed" /\ pc[u] = "committed"
        /\ DOMAIN write_set[t] \cap DOMAIN write_set[u] # {}
        /\ rv[t] < rv[u]
        /\ startedAt[u] <= rv[t] )

\* C9: a thread inside tx_read or tx_commit eventually leaves it, by a
\* return or by the abort.
InCall(t) ==
  pc[t] \in {"rd_cmp", "rd_reload", "val_clock", "val_cmp", "val_recheck",
             "cm_cas", "cm_wb", "cm_rel"}

C9_Termination ==
  \A t \in Threads : InCall(t) ~> pc[t] \in {"rd_ret", "committed", "aborted"}

\* C10: a step of tx_write changes the caller's write set and nothing else of
\* the transactional state, and ends in a normal return.
C10_WriteIsLocal ==
  [][\A t \in Threads :
       (pc[t] = "wr" /\ pc'[t] # "wr")
         => /\ pc'[t] = "active"
            /\ accts' = accts
            /\ global_clock' = global_clock
            /\ rv' = rv
            /\ read_set' = read_set
            /\ \A u \in Threads \ {t} :
                 write_set'[u] = write_set[u] /\ pc'[u] = pc[u]]_vars

\* a tx_write has returned while another thread held the clock odd
C10_Witness ==
  \E t \in Threads, u \in Threads :
    /\ pc[t] = "active" /\ DOMAIN write_set[t] # {}
    /\ InWindow(u)

\* a committed write set w that moves TRFR_AMT between two accounts of one
\* thread, computed from the memory s it was applied to
IsTransfer(w, s) ==
  \E t \in Threads : \E x1 \in Own(t), x2 \in Own(t) :
    /\ x1 # x2
    /\ DOMAIN w = {x1, x2}
    /\ s[x1] >= TRFR_AMT
    /\ w[x1] = s[x1] - TRFR_AMT
    /\ w[x2] = s[x2] + TRFR_AMT

AllDone == \A t \in Threads : pc[t] = "committed" /\ i[t] = Workload

\* C11: when the threads transfer between pairwise disjoint account pairs
\* and all of them have finished, the cells sum to the initial total and
\* hold exactly the committed transfers applied in order, each transfer
\* having moved TRFR_AMT inside its thread's own pair.
C11_DisjointConverge ==
  AllDone =>
    /\ SumTo(Cardinality(OwnCells) - 1) = Cardinality(OwnCells) * INIT_BALANCE
    /\ \A a \in OwnCells : accts[a].value = Snap(Len(log))[a]
    /\ \A k \in 1 .. Len(log) : IsTransfer(log[k], Snap(k - 1))
    /\ \A t \in Threads :
         Cardinality({k \in 1 .. Len(log) : DOMAIN log[k] \subseteq Own(t)})
           <= Workload

\* every thread finished and every one of them committed a transfer, one of
\* them having started before the other's commit
C11_Witness ==
  /\ AllDone
  /\ Len(log) = Cardinality(Threads) * Workload
  /\ \E t \in Threads : startedAt[t] < rv[t]

\* no thread but t is inside a transaction
NoOtherRunning(t) == \A u \in Threads \ {t} : pc[u] \in {"start", "committed"}

\* C12: with no other thread running, a commit of a transaction that wrote
\* each address at most once leaves every written cell at the written value
\* and every other cell as it was before the commit, and a tx_read that
\* returns a value read from memory returns the cell's current value.
C12_SequentialVisibility ==
  [][\A t \in Threads : NoOtherRunning(t) =>
       /\ (pc[t] = "cm_rel" /\ pc'[t] = "committed" /\ lastw[t] = write_set[t])
            => \A a \in DOMAIN accts :
                 accts'[a].value = IF a \in DOMAIN write_set[t]
                                     THEN write_set[t][a]
                                     ELSE Snap(Len(log))[a]
       /\ (pc[t] = "rd_cmp" /\ pc'[t] = "rd_ret")
            => val'[t] = accts'[addr'[t]].value]_vars

\* a thread committed two cells from the initial clock value, and a
\* transaction begun after that commit has read one of them from memory
C12_Witness ==
  \E t \in Threads, u \in Threads :
    /\ t # u
    /\ pc[t] = "committed" /\ rv[t] = 0
    /\ Cardinality(DOMAIN write_set[t]) = 2
    /\ pc[u] = "rd_ret" /\ startedAt[u] = 2
    /\ addr[u] \in DOMAIN write_set[t] \ DOMAIN write_set[u]
    /\ val[u] = write_set[t][addr[u]]
    /\ val[u] # INIT_BALANCE

\* C13: a step in which tx_begin returns leaves the thread's read set and
\* write set empty and rv at the even value the clock has in that step; and
\* rv is even whenever the thread is at the compare-and-swap of tx_commit.
C13_BeginPostcondition ==
  /\ [](\A t \in Threads : pc[t] = "cm_cas" => rv[t] % 2 = 0)
  /\ [][\A t \in Threads :
          (pc[t] \in {"start", "begin", "committed", "aborted"}
             /\ pc'[t] = "active")
            => /\ read_set'[t] = << >>
               /\ DOMAIN write_set'[t] = {}
               /\ rv'[t] % 2 = 0
               /\ rv'[t] = global_clock]_vars

\* a thread whose tx_begin returned 2, after another thread's commit, stands
\* at its compare-and-swap with the sets it has filled since
C13_Witness ==
  \E t \in Threads, u \in Threads :
    /\ t # u
    /\ pc[u] = "committed" /\ DOMAIN write_set[u] # {}
    /\ pc[t] = "cm_cas"
    /\ startedAt[t] = 2 /\ rv[t] = 2
    /\ read_set[t] # << >>

\* C14: a step in which tx_validate returns a value returns an even value
\* equal to the clock, with every entry of the thread's read set equal to
\* its cell in that state.
C14_ValidationSound ==
  [][\A t \in Threads :
       (pc[t] = "val_recheck" /\ pc'[t] \in {"rd_reload", "cm_cas"})
         => /\ rv'[t] % 2 = 0
            /\ rv'[t] = global_clock
            /\ \A k \in 1 .. Len(read_set[t]) :
                 read_set[t][k].value = accts[read_set[t][k].addr].value]_vars

\* C15: the write set maps every address the attempt has written to the
\* value of the latest tx_write to it, and a cell stored by the commit's
\* write-back holds that value.
C15_LastWriteWins ==
  \A t \in Threads :
    /\ \A a \in DOMAIN lastw[t] :
         a \in DOMAIN write_set[t] /\ write_set[t][a] = lastw[t][a]
    /\ InWindow(t) => \A a \in stored[t] : accts[a].value = lastw[t][a]

\* C16: every step that changes a cell is a write-back step of the thread
\* whose compare-and-swap made the clock odd (the clock is rv + 1 of that
\* thread and stays so), changes only cells of that thread's write set, and
\* moves no other thread.
C16_CellsChangeInWindow ==
  [][accts' # accts =>
       \E t \in Threads :
         /\ pc[t] = "cm_wb" /\ pc'[t] \in {"cm_wb", "cm_rel"}
         /\ global_clock % 2 = 1
         /\ global_clock = rv[t] + 1
         /\ global_clock' = global_clock
         /\ \A a \in DOMAIN accts :
              accts'[a] # accts[a] => a \in DOMAIN write_set[t]
         /\ \A u \in Threads \ {t} : pc'[u] = pc[u] /\ ~InWindow(u)]_vars

\* a committer has stored one cell and has another one left to store while
\* another thread waits for the clock to become even
C16_Witness ==
  \E t \in Threads, u \in Threads :
    /\ pc[t] = "cm_wb" /\ stored[t] # {} /\ wb[t] # {}
    /\ \E a \in stored[t] : accts[a].value # INIT_BALANCE
    /\ pc[u] \in {"begin", "val_clock"}

\* the threads between their successful compare-and-swap and their release
Committers == {t \in Threads : InWindow(t)}

\* C17: the clock is twice the number of completed writing commits, plus
\* one exactly when a thread is in its window (so it is odd exactly then);
\* no step decreases it; a release moves it from rv + 1 to rv + 2, and the
\* compare-and-swap before it from rv to rv + 1.
C17_ClockDiscipline ==
  /\ [](/\ global_clock = 2 * Len(log) + Cardinality(Committers)
        /\ Cardinality(Committers) <= 1
        /\ (global_clock % 2 = 1) <=> (Committers # {})
        /\ \A t \in Committers : global_clock = rv[t] + 1)
  /\ [][/\ global_clock' >= global_clock
         /\ \A t \in Threads :
              /\ (pc[t] = "cm_cas" /\ pc'[t] = "cm_wb")
                   => global_clock = rv[t] /\ global_clock' = rv[t] + 1
              /\ (pc[t] = "cm_rel" /\ pc'[t] = "committed")
                   => /\ global_clock = rv[t] + 1
                      /\ global_clock' = rv[t] + 2
                      /\ global_clock' = 2 * Len(log')]_vars

\* two writing commits have completed, the second one swapped on the value
\* the first one released
C17_Witness ==
  /\ Len(log) = 2
  /\ global_clock = 4
  /\ \E t \in Threads, u \in Threads :
       /\ pc[t] = "committed" /\ rv[t] = 0 /\ DOMAIN write_set[t] # {}
       /\ pc[u] = "committed" /\ rv[u] = 2 /\ DOMAIN write_set[u] # {}

\* C18: a step that raises the abort signal is a step of tx_validate at the
\* comparison of a read-set entry whose recorded value differs from its
\* cell; no step of tx_begin or tx_write raises it; and while every other
\* thread is still before its first tx_begin, a thread is never aborted and
\* never even enters tx_validate.
C18_AbortSingleCause ==
  /\ [](\A t \in Threads :
          (\A u \in Threads \ {t} : pc[u] = "start")
            => pc[t] \notin {"aborted", "val_clock", "val_cmp", "val_recheck"})
  /\ [][\A t \in Threads :
          (pc[t] # "aborted" /\ pc'[t] = "aborted")
            => /\ pc[t] = "val_cmp"
               /\ iterator[t] \in 1 .. Len(read_set[t])
               /\ read_set[t][iterator[t]].value
                    # accts[read_set[t][iterator[t]].addr].value]_vars

\* a thread has been aborted, its first read-set entry differing from the
\* cell another thread's commit has written
C18_Witness ==
  \E t \in Threads, u \in Threads :
    /\ pc[t] = "aborted"
    /\ read_set[t] # << >>
    /\ read_set[t][1].value # accts[read_set[t][1].addr].value
    /\ pc[u] = "committed" /\ read_set[t][1].addr \in DOMAIN write_set[u]

\* C19: when the committing thread keeps taking steps, every state with an
\* odd clock is followed by a state with an even clock.
C19_WindowCloses == (global_clock % 2 = 1) ~> (global_clock % 2 = 0)

\* the clock is odd, the committer has a cell left to store, and another
\* thread spins in tx_begin or in tx_validate
C19_Witness ==
  \E t \in Threads, u \in Threads :
    /\ global_clock % 2 = 1
    /\ pc[t] = "cm_wb" /\ Cardinality(wb[t]) = 2
    /\ \/ pc[u] = "begin" /\ rv[u] = global_clock
       \/ pc[u] = "val_clock" /\ temp[u] = global_clock

\* C20: under the transfer driver, with pairs that may overlap, no cell is
\* ever negative (nor is any value waiting in a write set).
C20_NoNegativeBalance ==
  /\ \A a \in DOMAIN accts : accts[a].value >= 0
  /\ \A t \in Threads : \A a \in DOMAIN write_set[t] : write_set[t][a] >= 0

\* one thread has emptied an account, and another one, drawing that account
\* as r1, has read less than TRFR_AMT and committed without writing
C20_Witness ==
  \E t \in Threads, u \in Threads :
    /\ pc[u] = "committed" /\ DOMAIN write_set[u] # {}
    /\ pc[t] = "committed" /\ DOMAIN write_set[t] = {}
    /\ read_set[t] # << >>
    /\ read_set[t][1].addr \in DOMAIN write_set[u]
    /\ read_set[t][1].value < TRFR_AMT
    /\ accts[read_set[t][1].addr].value = 0

=============================================================================
